---- MODULE Spec2Model ----
(***************************************************************************)
(* The PostgreSQL logical-replication capture source PGXSource of          *)
(* pgcapture (package source).                                             *)
(*                                                                         *)
(* The repository holds two revisions of the same type:                    *)
(*   "inline" : src/unnamed/part_000. Capture spawns the fetch loop itself *)
(*              and PGXSource owns the stop flag and the stop channel.     *)
(*   "base"   : src/pkg/source/postgres.go. fetching handles one message   *)
(*              per call and Capture hands fetching and cleanup to         *)
(*              BaseSource.capture, which is not among the sources.        *)
(* rev selects the revision; it is chosen in Init and never changes.       *)
(*                                                                         *)
(* Threads: the caller (Setup, Capture, Commit, Stop, receiving from the   *)
(* output channel) and the goroutine spawned by Capture.  The clock is a   *)
(* third, independent actor (Tick).                                        *)
(***************************************************************************)
EXTENDS Integers, Sequences, FiniteSets, TLC

\* ------------------------------------------------------------------ bounds
\* Calls of Setup and Capture in one behaviour of Spec.
MaxCalls == 2
\* Calls of Setup and Capture in one behaviour of SpecCalls.
MaxRetryCalls == 3
\* Protocol messages delivered by ReceiveMessage in one behaviour.
MaxMsgs == 2
\* The clock starts at 1 and does not pass MaxNow (seconds).
MaxNow == 11
\* Capacity of the output channel in the model.  The code allocates
\* make(chan Change, 100) (part_000:87); the buffer is scaled down so that a
\* full channel is reachable.
ChanCap == 1
\* XLogData.WALStart ranges over 1..MaxWalStart, len(WALData) over 1..MaxLen.
MaxWalStart == 2
MaxLen == 1
\* LSNs a caller passes in a Checkpoint (to Capture and to Commit): 0..MaxCpLsn.
MaxCpLsn == 1
\* Positions IdentifySystem reports: MaxCpLsn+1..MaxXLogPos.
MaxXLogPos == 2

\* ------------------------------------------------------- program constants
\* reportInterval := time.Second * 5, in seconds.
ReportInterval == 5
\* The epoch offset of PGTime2Time: microsecFromUnixEpochToY2K / microInSecond.
Y2KUnixSec == 946684800
microInSecond == 1000000
nsInSecond == 1000

Inline == "inline"
Base == "base"

VARIABLES
  rev,            \* the revision modelled: Inline or Base
  alive,          \* FALSE once log.Fatalf has ended the process
  callerPc,       \* "idle", or "StopWait": blocked in <-p.stop
  ncalls,         \* Setup and Capture calls made
  setupConn,      \* p.setupConn: a connection id, 0 for nil
  replConn,       \* p.replConn:  a connection id, 0 for nil
  connCloses,     \* per opened connection, the number of Close calls on it
  decoder,        \* p.decoder is set
  ackLsn,         \* p.ackLsn
  stopped,        \* p.stopped
  stop,           \* p.stop: "nil", "open" or "closed"
  loopPc,         \* position of the goroutine spawned by Capture
  nextReportTime, \* fetching's nextReportTime; 0 is time.Time{}
  commitTime,     \* p.commitTime
  pending,        \* the Change the loop is about to send
  changes,        \* the output channel: [made, buf, closed]
  now,            \* time.Now(), in seconds
  nmsgs,          \* messages delivered so far
  orphans,        \* goroutines of earlier Capture calls still running beside
                  \* the one loopPc follows
  \* ---- history variables (observations, not program state)
  lastCall,       \* the last Setup or Capture call and how it returned
  session,        \* the checkpoint, XLogPos and start position of Capture
  sent,           \* what the loop placed on the current channel, in order
  rcvd,           \* what the consumer took from the current channel, in order
  stopInfo,       \* the Stop call: when it was requested, whether it returned
  iter,           \* what the current loop iteration has done so far
  counts,         \* totals of the current session
  exitWhy         \* why fetching returned: "none", "stop" or "fatal"

vars == <<rev, alive, callerPc, ncalls, setupConn, replConn, connCloses, decoder,
          ackLsn, stopped, stop, loopPc, nextReportTime, commitTime, pending,
          changes, now, nmsgs, orphans, lastCall, session, sent, rcvd, stopInfo, iter,
          counts, exitWhy>>

\* Groups of variables, for UNCHANGED.
callerVars == <<callerPc, stopInfo>>
connVars == <<setupConn, replConn, connCloses>>
flagVars == <<ackLsn, stopped, stop>>
loopVars == <<loopPc, nextReportTime, commitTime, pending, exitWhy>>
chanVars == <<changes, sent, rcvd>>
callHist == <<ncalls, lastCall, session, orphans>>
loopHist == <<iter, counts>>

\* ---------------------------------------------------------- 64-bit words
\* A 64-bit word is written in base microInSecond as <<a, b, c>>, standing
\* for a * microInSecond^2 + b * microInSecond + c with b, c < microInSecond,
\* so that no limb leaves the range of the model checker's integers.
Word(a, b, c) == <<a, b, c>>
Two63 == Word(9223372, 36854, 775808)
Two64 == Word(18446744, 73709, 551616)
WordLess(x, y) ==
  \/ x[1] < y[1]
  \/ x[1] = y[1] /\ x[2] < y[2]
  \/ x[1] = y[1] /\ x[2] = y[2] /\ x[3] < y[3]
\* x + y and, for x >= y, x - y, without wrapping.
WordAdd(x, y) ==
  LET c == x[3] + y[3]
      b == x[2] + y[2] + (c \div microInSecond)
  IN  Word(x[1] + y[1] + (b \div microInSecond), b % microInSecond,
           c % microInSecond)
WordSub(x, y) ==
  LET c == x[3] - y[3]
      b == x[2] - y[2] - (IF c < 0 THEN 1 ELSE 0)
  IN  Word(x[1] - y[1] - (IF b < 0 THEN 1 ELSE 0), b % microInSecond,
           c % microInSecond)
\* Addition of int64 values given by their bit patterns: modulo 2^64.
Int64Add(x, y) ==
  LET sum == WordAdd(x, y)
  IN  IF WordLess(sum, Two64) THEN sum ELSE WordSub(sum, Two64)
\* The bit pattern read as an int64: its sign and its magnitude.
Int64Neg(x) == ~WordLess(x, Two63)
Int64Abs(x) == IF Int64Neg(x) THEN WordSub(Two64, x) ELSE x

\* ------------------------------------------------------------- time values
\* time.Time as [set, neg, sec, nsec]: the instant neg/sec seconds from the
\* Unix epoch (sec = <<hi, lo>> stands for hi * microInSecond + lo, negated
\* when neg) plus nsec nanoseconds, 0 <= nsec < nsPerSecond.  ZeroTime is
\* time.Time{}.
nsPerSecond == 1000000000
ZeroTime == [set |-> FALSE, neg |-> FALSE, sec |-> <<0, 0>>, nsec |-> 0]
\* time.Unix(sec, nsec) for sec = neg/mag and -nsPerSecond < nsec <
\* nsPerSecond: a negative nsec is normalised by borrowing one second.
Unix(neg, mag, nsec) ==
  IF nsec >= 0
    THEN [set |-> TRUE, neg |-> neg /\ mag # <<0, 0>>, sec |-> mag, nsec |-> nsec]
  ELSE IF neg \/ mag = <<0, 0>>
    THEN [set |-> TRUE, neg |-> TRUE,
          sec |-> <<mag[1] + ((mag[2] + 1) \div microInSecond),
                    (mag[2] + 1) % microInSecond>>,
          nsec |-> nsec + nsPerSecond]
  ELSE [set |-> TRUE, neg |-> FALSE,
        sec |-> <<mag[1] - (IF mag[2] = 0 THEN 1 ELSE 0),
                  (mag[2] - 1) % microInSecond>>,
        nsec |-> nsec + nsPerSecond]

\* microsecFromUnixEpochToY2K = int64(946684800 * 1000000).
microsecFromUnixEpochToY2K ==
  Word(Y2KUnixSec \div microInSecond, Y2KUnixSec % microInSecond, 0)

\* PGTime2Time(ts uint64): micro := microsecFromUnixEpochToY2K + int64(ts);
\* time.Unix(micro/microInSecond, (micro%microInSecond)*nsInSecond).  The
\* addition is an int64 addition; / and % truncate toward zero, so quotient
\* and remainder carry the sign of micro.
PGTime2Time(ts) ==
  LET micro == Int64Add(microsecFromUnixEpochToY2K, ts)
      neg == Int64Neg(micro)
      mag == Int64Abs(micro)
      rem == mag[3] * nsInSecond
  IN  Unix(neg, <<mag[1], mag[2]>>, IF neg THEN 0 - rem ELSE rem)

\* ------------------------------------------------------------ connections
NoConn == 0
\* pgx.Connect / pgconn.Connect succeeded: a fresh connection, never closed.
Opened(closes) == Append(closes, 0)
\* conn.Close(ctx): one more Close call on connection id.
CloseConn(closes, id) == [closes EXCEPT ![id] = @ + 1]

\* cleanup of part_000: each connection is closed if the field is non-nil, and
\* the field is set to nil.
cleanup(sc, rc, closes) ==
  LET c1 == IF sc # NoConn THEN CloseConn(closes, sc) ELSE closes
      c2 == IF rc # NoConn THEN CloseConn(c1, rc) ELSE c1
  IN  [setupConn |-> NoConn, replConn |-> NoConn, connCloses |-> c2]

\* cleanup of postgres.go: each connection is closed if the field is non-nil;
\* the fields keep their values.
cleanupBase(sc, rc, closes) ==
  LET c1 == IF sc # NoConn THEN CloseConn(closes, sc) ELSE closes
      c2 == IF rc # NoConn THEN CloseConn(c1, rc) ELSE c1
  IN  [setupConn |-> sc, replConn |-> rc, connCloses |-> c2]

\* ----------------------------------------------------------------- Init
NoMessage == [type |-> "nil", ignore |-> FALSE, ddl |-> FALSE, ts |-> Word(0, 0, 0)]
NoRecord == [walStart |-> 0, len |-> 0]
\* A Change: Checkpoint.LSN, Checkpoint.Time and Message; rec is the XLogData
\* record it was made from (an observation, not a field of Change).
NoChange == [lsn |-> 0, time |-> ZeroTime, msg |-> NoMessage, rec |-> NoRecord]
\* One iteration of the loop.  prev: the message of the iteration before and
\* prevNrt: the report time it found; status: "sent" or "failed" if this
\* iteration sent a standby status update, statusLsn: the LSN it carried;
\* msg: what ReceiveMessage gave; nrtBefore, nrtAfter: the report time before
\* and after the message was handled; events: the calls made for it, in order;
\* ts: the commit time a Begin carried.
NoIter == [prev |-> "none", prevNrt |-> 0, status |-> "none", statusLsn |-> 0,
           msg |-> "none", nrtBefore |-> 0, nrtAfter |-> 0, events |-> <<>>,
           ts |-> Word(0, 0, 0)]
\* status: status updates sent or tried; decoded: calls of Decode; kept: decoded
\* messages that are neither nil nor ignorable; ignored: ignorable changes;
\* ddl: non-ignorable DDL changes; refresh: calls of RefreshType, refreshFailed:
\* those that failed; begun: a Begin was decoded, beginTs: the CommitTime of the
\* latest one.
NoCounts == [status |-> 0, decoded |-> 0, kept |-> 0, ignored |-> 0, ddl |-> 0,
             refresh |-> 0, refreshFailed |-> 0, begun |-> FALSE,
             beginTs |-> Word(0, 0, 0)]
NoCall == [op |-> "none", failed |-> "none", ret |-> "nil", open |-> {}]
\* asked: StartReplication was called with start; started: it succeeded and
\* the loop was started; sc, rc: the connections the loop was started with;
\* hasCommit: Commit was called since, committed: the LSN of the latest call;
\* stopFirst: Stop had been called before this call of Capture.
NoSession == [asked |-> FALSE, started |-> FALSE, cp |-> 0, xlogpos |-> 0,
              start |-> 0, sc |-> NoConn, rc |-> NoConn, hasCommit |-> FALSE,
              committed |-> 0, stopFirst |-> FALSE]
NoStop == [called |-> FALSE, sentAt |-> 0, rcvdAt |-> 0, returned |-> FALSE,
           waited |-> FALSE]

Init ==
  /\ rev \in {Inline, Base}
  /\ alive = TRUE
  /\ callerPc = "idle"
  /\ ncalls = 0
  /\ setupConn = NoConn
  /\ replConn = NoConn
  /\ connCloses = <<>>
  /\ decoder = FALSE
  /\ ackLsn = 0
  /\ stopped = 0
  /\ stop = "nil"
  /\ loopPc = "none"
  /\ nextReportTime = 0
  /\ commitTime = ZeroTime
  /\ pending = NoChange
  /\ changes = [made |-> FALSE, buf |-> <<>>, closed |-> FALSE]
  /\ now = 1
  /\ nmsgs = 0
  /\ orphans = 0
  /\ lastCall = NoCall
  /\ session = NoSession
  /\ sent = <<>>
  /\ rcvd = <<>>
  /\ stopInfo = NoStop
  /\ iter = NoIter
  /\ counts = NoCounts
  /\ exitWhy = "none"

\* No goroutine of Capture is running.
LoopIdle == loopPc \in {"none", "done"}

\* ----------------------------------------------------------------- Setup
\* Setup, the same in both revisions; limit bounds the calls made (it is not
\* part of the program).  failed names the step that fails:
\* "connect" (pgx.Connect), "schema" (RefreshType), "extension" (Exec of
\* InstallExtension), "slot" (Exec of CreateLogicalSlot, run only when
\* p.CreateSlot), or "none".
SetupReturn(failed) ==
  CASE failed = "connect" -> "err"
    [] failed = "schema" -> "err"
    [] failed = "extension" -> "nil"
    [] failed = "slot" -> "err"
    [] OTHER -> "nil"

Setup(limit) ==
  /\ alive /\ callerPc = "idle" /\ LoopIdle /\ ncalls < limit
  /\ \E failed \in {"none", "connect", "schema", "extension", "slot"} :
       LET closes == IF failed = "connect" THEN connCloses ELSE Opened(connCloses)
       IN  /\ setupConn' = (IF failed = "connect" THEN NoConn ELSE Len(closes))
           /\ connCloses' = closes
           /\ decoder' = (IF failed \in {"connect", "schema"} THEN decoder ELSE TRUE)
           /\ lastCall' = [op |-> "Setup", failed |-> failed,
                           ret |-> SetupReturn(failed),
                           open |-> {id \in DOMAIN closes : closes[id] = 0}]
  /\ ncalls' = ncalls + 1
  /\ UNCHANGED <<rev, alive, callerVars, replConn, flagVars, loopVars, chanVars,
                 now, nmsgs, orphans, session, loopHist>>

\* --------------------------------------------------------------- Capture
\* Mutant of RequestLSN: the test on the checkpoint inverted.
RequestLSNInverted(cp, xlogpos) == IF cp = 0 THEN cp ELSE xlogpos

\* The start position Capture passes to StartReplication: the checkpoint's LSN
\* if it is not 0, else ident.XLogPos.
RequestLSN(cp, xlogpos) == IF cp # 0 THEN cp ELSE xlogpos

\* Checkpoints a caller passes and positions IdentifySystem reports.
CpLsns == 0..MaxCpLsn
XLogPositions == (MaxCpLsn + 1)..MaxXLogPos

\* Capture of part_000.  failed names the step that fails: "connect"
\* (pgconn.Connect), "identify" (IdentifySystem), "start" (StartReplication),
\* or "none".  Every failure returns (nil, err) and nothing else is done.
\* On success ackLsn and stop are set, the channel is made and the goroutine
\* is started.
CaptureCall(limit) ==
  /\ rev = Inline
  /\ alive /\ callerPc = "idle" /\ decoder /\ ncalls < limit
  /\ \E failed \in {"none", "connect", "identify", "start"},
        cp \in CpLsns, xlogpos \in XLogPositions :
       LET closes == IF failed = "connect" THEN connCloses ELSE Opened(connCloses)
           requestLSN == RequestLSN(cp, xlogpos)
       IN  /\ replConn' = (IF failed = "connect" THEN NoConn ELSE Len(closes))
           /\ connCloses' = closes
           /\ session' = (IF failed \in {"none", "start"}
                            THEN [asked |-> TRUE, started |-> failed = "none",
                                  cp |-> cp, xlogpos |-> xlogpos,
                                  start |-> requestLSN, sc |-> setupConn,
                                  rc |-> Len(closes), hasCommit |-> FALSE,
                                  committed |-> 0, stopFirst |-> stopInfo.called]
                            ELSE session)
           /\ lastCall' = [op |-> "Capture", failed |-> failed,
                           ret |-> IF failed = "none" THEN "nil" ELSE "err",
                           open |-> {id \in DOMAIN closes : closes[id] = 0}]
           /\ IF failed = "none"
                THEN /\ ackLsn' = requestLSN
                     /\ stop' = "open"
                     /\ changes' = [made |-> TRUE, buf |-> <<>>, closed |-> FALSE]
                     /\ loopPc' = "start"
                     /\ sent' = <<>>
                     /\ rcvd' = <<>>
                     /\ stopInfo' = [stopInfo EXCEPT !.sentAt = 0, !.rcvdAt = 0,
                                       !.returned = FALSE, !.waited = FALSE]
                     /\ iter' = NoIter
                     /\ counts' = NoCounts
                     /\ exitWhy' = "none"
                ELSE UNCHANGED <<ackLsn, stop, chanVars, loopPc, stopInfo,
                                 loopHist, exitWhy>>
  /\ ncalls' = ncalls + 1
  /\ UNCHANGED <<rev, alive, callerPc, setupConn, decoder, stopped,
                 nextReportTime, commitTime, pending, now, nmsgs>>

\* Capture called while no goroutine of an earlier call is running.
Capture(limit) ==
  /\ LoopIdle
  /\ CaptureCall(limit)
  /\ UNCHANGED orphans

\* Capture called while the fetch loop of an earlier call is running.  Nothing
\* in Capture tests for it: on success p.replConn, p.ackLsn and p.stop are
\* overwritten and a second goroutine is started.  loopPc follows the new
\* goroutine; the one already running is counted in orphans.
CaptureRunning(limit) ==
  /\ loopPc \in {"start", "check", "recv", "send"}
  /\ CaptureCall(limit)
  /\ orphans' = (IF lastCall'.ret = "nil" THEN orphans + 1 ELSE orphans)

\* Capture of postgres.go.  The deferred function runs cleanup when the call
\* returns an error.  On success ackLsn is set and fetching and cleanup are
\* handed to BaseSource.capture, which makes the channel and the completion
\* signal and starts the loop (BaseTop).
CaptureBase(limit) ==
  /\ rev = Base
  /\ alive /\ callerPc = "idle" /\ LoopIdle /\ decoder /\ ncalls < limit
  /\ \E failed \in {"none", "connect", "identify", "start"},
        cp \in CpLsns, xlogpos \in XLogPositions :
       LET closes == IF failed = "connect" THEN connCloses ELSE Opened(connCloses)
           rc == IF failed = "connect" THEN NoConn ELSE Len(closes)
           requestLSN == RequestLSN(cp, xlogpos)
           after == IF failed = "none"
                      THEN [setupConn |-> setupConn, replConn |-> rc,
                            connCloses |-> closes]
                      ELSE cleanupBase(setupConn, rc, closes)
       IN  /\ setupConn' = after.setupConn
           /\ replConn' = after.replConn
           /\ connCloses' = after.connCloses
           /\ session' = (IF failed \in {"none", "start"}
                            THEN [asked |-> TRUE, started |-> failed = "none",
                                  cp |-> cp, xlogpos |-> xlogpos,
                                  start |-> requestLSN, sc |-> setupConn,
                                  rc |-> Len(closes), hasCommit |-> FALSE,
                                  committed |-> 0, stopFirst |-> stopInfo.called]
                            ELSE session)
           /\ lastCall' = [op |-> "Capture", failed |-> failed,
                           ret |-> IF failed = "none" THEN "nil" ELSE "err",
                           open |-> {id \in DOMAIN after.connCloses :
                                       after.connCloses[id] = 0}]
           /\ IF failed = "none"
                THEN /\ ackLsn' = requestLSN
                     /\ stop' = "open"
                     /\ changes' = [made |-> TRUE, buf |-> <<>>, closed |-> FALSE]
                     /\ loopPc' = "top"
                     /\ sent' = <<>>
                     /\ rcvd' = <<>>
                     /\ stopInfo' = [stopInfo EXCEPT !.sentAt = 0, !.rcvdAt = 0,
                                       !.returned = FALSE, !.waited = FALSE]
                     /\ iter' = NoIter
                     /\ counts' = NoCounts
                     /\ exitWhy' = "none"
                ELSE UNCHANGED <<ackLsn, stop, chanVars, loopPc, stopInfo,
                                 loopHist, exitWhy>>
  /\ ncalls' = ncalls + 1
  /\ UNCHANGED <<rev, alive, callerPc, decoder, stopped, nextReportTime,
                 commitTime, pending, now, nmsgs, orphans>>

\* ------------------------------------------------------ protocol messages
\* What decoder.Decode returns for a WAL payload: an error ("err"), nil
\* ("nil"), or a message: Begin with its commit time, or a Change with the
\* classifications decode.Ignore and decode.IsDDL give it.  (A Commit, or any
\* other message type, is handled as a Change that is neither.)
\* Commit times a Begin carries (uint64, microseconds since 2000-01-01): 0,
\* one second, and the largest int64.
BeginTimes == {Word(0, 0, 0), Word(0, 1, 0), WordSub(Two63, Word(0, 0, 1))}
Decoded ==
  {[type |-> t, ignore |-> FALSE, ddl |-> FALSE, ts |-> Word(0, 0, 0)] :
     t \in {"err", "nil"}}
  \cup {[type |-> "Begin", ignore |-> FALSE, ddl |-> FALSE, ts |-> ts] : ts \in BeginTimes}
  \cup {[type |-> "Change", ignore |-> i, ddl |-> d, ts |-> Word(0, 0, 0)] :
          i \in BOOLEAN, d \in BOOLEAN}

\* What ReceiveMessage delivers:
\*   "Other"     a message that is not CopyData
\*   "CopyOther" CopyData whose first byte is neither the keepalive nor the
\*               XLogData id
\*   "Keepalive" CopyData with a keepalive; ok: it parses; reply: ReplyRequested
\*   "XLogData"  CopyData with WAL data; ok: it parses; rec: WALStart and
\*               len(WALData); m: what the decoder makes of WALData
Records == [walStart : 1..MaxWalStart, len : 1..MaxLen]
Msgs ==
  {[k |-> k, ok |-> TRUE, reply |-> FALSE, rec |-> NoRecord, m |-> NoMessage] :
     k \in {"Other", "CopyOther"}}
  \cup {[k |-> "Keepalive", ok |-> o, reply |-> r, rec |-> NoRecord, m |-> NoMessage] :
          o \in BOOLEAN, r \in BOOLEAN}
  \cup {[k |-> "XLogData", ok |-> FALSE, reply |-> FALSE, rec |-> NoRecord, m |-> NoMessage]}
  \cup {[k |-> "XLogData", ok |-> TRUE, reply |-> FALSE, rec |-> r, m |-> m] :
          r \in Records, m \in Decoded}

\* The name under which iter records a message.
Label(msg) ==
  CASE msg.k = "Keepalive" ->
         (IF ~msg.ok THEN "KeepaliveBad"
          ELSE IF msg.reply THEN "KeepaliveReply" ELSE "Keepalive")
    [] msg.k = "XLogData" ->
         (IF ~msg.ok THEN "XLogBad"
          ELSE IF msg.m.type # "Change" THEN msg.m.type
          ELSE IF msg.m.ignore THEN "Ignored"
          ELSE IF msg.m.ddl THEN "DDL" ELSE "Change")
    [] OTHER -> msg.k

\* ------------------------------------------------------------- dispatch
\* Mutant of KeepaliveDeadline: ReplyRequested is not honoured.
KeepaliveDeadlineKept(reply, nrt) == nrt

\* if pkm.ReplyRequested { nextReportTime = time.Time{} }
KeepaliveDeadline(reply, nrt) == IF reply THEN 0 ELSE nrt

\* Mutant of ChangeLSN: the record's own start offset.
ChangeLSNStart(walStart, len) == walStart

\* Checkpoint.LSN of a Change: uint64(xld.WALStart) + uint64(len(xld.WALData)).
ChangeLSN(walStart, len) == walStart + len

\* Mutant of IsDDL: the DDL branch is never taken.
IsDDLNever(m) == FALSE

\* Mutant of Ignore: no change is classified ignorable.
IgnoreNever(m) == FALSE

\* decode.Ignore(change) and decode.IsDDL(change), as the branches use them.
Ignore(m) == m.ignore
IsDDL(m) == m.ddl

\* Mutant of CommitTimeAfter: a Begin leaves the commit time as it was.
CommitTimeKept(m, ct) == ct

\* p.commitTime after the decoded message m: case *pb.Message_Begin sets it to
\* PGTime2Time(msg.Begin.CommitTime); nothing else touches it.
CommitTimeAfter(m, ct) == IF m.type = "Begin" THEN PGTime2Time(m.ts) ELSE ct

Outcome(res, nrt, ct, change, events) ==
  [res |-> res, nrt |-> nrt, commitTime |-> ct, change |-> change, events |-> events]

\* The switch of fetching in part_000 on a received message.  rok: whether a
\* RefreshType this message triggers succeeds; nrt, ct: nextReportTime and
\* p.commitTime before.  res is "fatal" (return err), "continue" (next
\* iteration) or "forward" (changes <- change).
Dispatch(msg, rok, nrt, ct) ==
  CASE msg.k = "Other" -> Outcome("fatal", nrt, ct, NoChange, <<>>)
    [] msg.k = "CopyOther" -> Outcome("continue", nrt, ct, NoChange, <<>>)
    [] msg.k = "Keepalive" ->
         IF ~msg.ok THEN Outcome("fatal", nrt, ct, NoChange, <<>>)
         ELSE Outcome("continue", KeepaliveDeadline(msg.reply, nrt), ct, NoChange, <<>>)
    [] msg.k = "XLogData" ->
         IF ~msg.ok THEN Outcome("fatal", nrt, ct, NoChange, <<>>)
         ELSE IF msg.m.type = "err" THEN Outcome("fatal", nrt, ct, NoChange, <<"decode">>)
         ELSE IF msg.m.type = "nil" THEN Outcome("continue", nrt, ct, NoChange, <<"decode">>)
         ELSE
           LET ct2 == CommitTimeAfter(msg.m, ct)
               change == [lsn |-> ChangeLSN(msg.rec.walStart, msg.rec.len),
                          time |-> ct2, msg |-> msg.m, rec |-> msg.rec]
           IN  IF msg.m.type = "Change" /\ Ignore(msg.m)
                 THEN Outcome("continue", nrt, ct2, NoChange, <<"decode">>)
               ELSE IF msg.m.type = "Change" /\ IsDDL(msg.m)
                 THEN (IF rok
                         THEN Outcome("forward", nrt, ct2, change, <<"decode", "refresh">>)
                         ELSE Outcome("fatal", nrt, ct2, NoChange,
                                      <<"decode", "refresh_failed">>))
               ELSE Outcome("forward", nrt, ct2, change, <<"decode">>)

\* The switch of fetching in postgres.go: the same, except that a Begin does
\* not set a commit time and the Change carries no Time.
DispatchBase(msg, rok, nrt, ct) ==
  CASE msg.k = "Other" -> Outcome("fatal", nrt, ct, NoChange, <<>>)
    [] msg.k = "CopyOther" -> Outcome("continue", nrt, ct, NoChange, <<>>)
    [] msg.k = "Keepalive" ->
         IF ~msg.ok THEN Outcome("fatal", nrt, ct, NoChange, <<>>)
         ELSE Outcome("continue", KeepaliveDeadline(msg.reply, nrt), ct, NoChange, <<>>)
    [] msg.k = "XLogData" ->
         IF ~msg.ok THEN Outcome("fatal", nrt, ct, NoChange, <<>>)
         ELSE IF msg.m.type = "err" THEN Outcome("fatal", nrt, ct, NoChange, <<"decode">>)
         ELSE IF msg.m.type = "nil" THEN Outcome("continue", nrt, ct, NoChange, <<"decode">>)
         ELSE
           LET change == [lsn |-> ChangeLSN(msg.rec.walStart, msg.rec.len),
                          time |-> ZeroTime, msg |-> msg.m, rec |-> msg.rec]
           IN  IF msg.m.type = "Change" /\ Ignore(msg.m)
                 THEN Outcome("continue", nrt, ct, NoChange, <<"decode">>)
               ELSE IF msg.m.type = "Change" /\ IsDDL(msg.m)
                 THEN (IF rok
                         THEN Outcome("forward", nrt, ct, change, <<"decode", "refresh">>)
                         ELSE Outcome("fatal", nrt, ct, NoChange,
                                      <<"decode", "refresh_failed">>))
               ELSE Outcome("forward", nrt, ct, change, <<"decode">>)

\* The totals after a message with the given events.
Counted(c, msg, events) ==
  LET has(e) == \E i \in DOMAIN events : events[i] = e
  IN  [c EXCEPT !.decoded = @ + (IF has("decode") THEN 1 ELSE 0),
                !.kept = @ + (IF Label(msg) \in {"Begin", "Change", "DDL"} THEN 1 ELSE 0),
                !.ignored = @ + (IF Label(msg) = "Ignored" THEN 1 ELSE 0),
                !.ddl = @ + (IF Label(msg) = "DDL" THEN 1 ELSE 0),
                !.refresh = @ + (IF has("refresh") \/ has("refresh_failed") THEN 1 ELSE 0),
                !.refreshFailed = @ + (IF has("refresh_failed") THEN 1 ELSE 0),
                !.begun = @ \/ Label(msg) = "Begin",
                !.beginTs = IF Label(msg) = "Begin" THEN msg.m.ts ELSE @]

\* Mutant of committedLSN: the position the session started from.
committedLSNStart == session.start

\* committedLSN(): atomic.LoadUint64(&p.ackLsn).
committedLSN == ackLsn

\* -------------------------------------------------- fetch loop, part_000
\* Where the goroutine goes when fetching returns: log.Fatalf on an error,
\* the deferred calls on nil.
Returned(why) == IF why = "fatal" THEN "fatalf" ELSE "closeChanges"

\* fetching is entered: nextReportTime := time.Now().Add(reportInterval).
FetchStart ==
  /\ rev = Inline /\ alive /\ loopPc = "start"
  /\ nextReportTime' = now + ReportInterval
  /\ loopPc' = "check"
  /\ UNCHANGED <<rev, alive, callerVars, connVars, decoder, flagVars, commitTime,
                 pending, exitWhy, chanVars, now, nmsgs, callHist, loopHist>>

\* Mutant of FetchCheck: the stop flag is examined first, and a requested stop
\* ends the loop without a status update.
FetchCheckStopFirst ==
  /\ rev = Inline /\ alive /\ loopPc = "check"
  /\ iter' = [NoIter EXCEPT !.prev = iter.msg, !.prevNrt = iter.nrtBefore]
  /\ IF stopped = 1
       THEN exitWhy' = "stop" /\ loopPc' = Returned("stop")
       ELSE loopPc' = "recv" /\ UNCHANGED exitWhy
  /\ UNCHANGED <<rev, alive, callerVars, connVars, decoder, flagVars,
                 nextReportTime, commitTime, pending, chanVars, now, nmsgs,
                 callHist, counts>>

\* The top of the loop: if time.Now().After(nextReportTime), send a standby
\* status update with committedLSN() (sok: the send succeeds), set the next
\* report time and return nil if p.stopped is 1.
FetchCheck ==
  /\ rev = Inline /\ alive /\ loopPc = "check"
  /\ IF now > nextReportTime
       THEN \E sok \in BOOLEAN :
              /\ iter' = [NoIter EXCEPT !.prev = iter.msg,
                                        !.prevNrt = iter.nrtBefore,
                                        !.status = IF sok THEN "sent" ELSE "failed",
                                        !.statusLsn = committedLSN]
              /\ counts' = [counts EXCEPT !.status = @ + 1]
              /\ IF ~sok
                   THEN /\ exitWhy' = "fatal"
                        /\ loopPc' = Returned("fatal")
                        /\ UNCHANGED nextReportTime
                   ELSE /\ nextReportTime' = now + ReportInterval
                        /\ IF stopped = 1
                             THEN /\ exitWhy' = "stop"
                                  /\ loopPc' = Returned("stop")
                             ELSE /\ loopPc' = "recv"
                                  /\ UNCHANGED exitWhy
       ELSE /\ iter' = [NoIter EXCEPT !.prev = iter.msg, !.prevNrt = iter.nrtBefore]
            /\ loopPc' = "recv"
            /\ UNCHANGED <<counts, exitWhy, nextReportTime>>
  /\ UNCHANGED <<rev, alive, callerVars, connVars, decoder, flagVars, commitTime,
                 pending, chanVars, now, nmsgs, callHist>>

\* Mutant of RecvTimeout: the expiry of the deadline is returned as an error.
RecvTimeoutFatal ==
  /\ rev = Inline /\ alive /\ loopPc = "recv"
  /\ now >= nextReportTime
  /\ iter' = [iter EXCEPT !.msg = "timeout"]
  /\ exitWhy' = "fatal"
  /\ loopPc' = "fatalf"
  /\ UNCHANGED <<rev, alive, callerVars, connVars, decoder, flagVars,
                 nextReportTime, commitTime, pending, chanVars, now, nmsgs,
                 callHist, counts>>

\* ReceiveMessage under the deadline nextReportTime ends by the deadline:
\* pgconn.Timeout(err), continue.
RecvTimeout ==
  /\ rev = Inline /\ alive /\ loopPc = "recv"
  /\ now >= nextReportTime
  /\ iter' = [iter EXCEPT !.msg = "timeout"]
  /\ loopPc' = "check"
  /\ UNCHANGED <<rev, alive, callerVars, connVars, decoder, flagVars,
                 nextReportTime, commitTime, pending, exitWhy, chanVars, now,
                 nmsgs, callHist, counts>>

\* ReceiveMessage fails with an error that is not a timeout: return err.
RecvError ==
  /\ rev = Inline /\ alive /\ loopPc = "recv"
  /\ iter' = [iter EXCEPT !.msg = "error"]
  /\ exitWhy' = "fatal"
  /\ loopPc' = Returned("fatal")
  /\ UNCHANGED <<rev, alive, callerVars, connVars, decoder, flagVars,
                 nextReportTime, commitTime, pending, chanVars, now, nmsgs,
                 callHist, counts>>

\* ReceiveMessage delivers a message before the deadline, and the switch
\* handles it.
RecvMsg ==
  /\ rev = Inline /\ alive /\ loopPc = "recv"
  /\ now < nextReportTime /\ nmsgs < MaxMsgs
  /\ \E msg \in Msgs, rok \in BOOLEAN :
       LET out == Dispatch(msg, rok, nextReportTime, commitTime)
       IN  /\ nextReportTime' = out.nrt
           /\ commitTime' = out.commitTime
           /\ pending' = out.change
           /\ iter' = [iter EXCEPT !.msg = Label(msg), !.nrtBefore = nextReportTime,
                                   !.nrtAfter = out.nrt, !.events = out.events,
                                   !.ts = msg.m.ts]
           /\ counts' = Counted(counts, msg, out.events)
           /\ exitWhy' = (IF out.res = "fatal" THEN "fatal" ELSE exitWhy)
           /\ loopPc' = (CASE out.res = "fatal" -> Returned("fatal")
                           [] out.res = "forward" -> "send"
                           [] OTHER -> "check")
  /\ nmsgs' = nmsgs + 1
  /\ UNCHANGED <<rev, alive, callerVars, connVars, decoder, flagVars, chanVars,
                 now, callHist>>

\* Mutant of ChanSend: the Change is lost.
ChanSendLost(buf, c) == buf

\* changes <- c on a channel holding buf.
ChanSend(buf, c) == Append(buf, c)

\* changes <- Change{...}: blocks while the channel is full.
SendChange ==
  /\ rev = Inline /\ alive /\ loopPc = "send"
  /\ Len(changes.buf) < ChanCap
  /\ changes' = [changes EXCEPT !.buf = ChanSend(@, pending)]
  /\ sent' = Append(sent, pending)
  /\ iter' = [iter EXCEPT !.events = Append(@, "forward")]
  /\ pending' = NoChange
  /\ loopPc' = "check"
  /\ UNCHANGED <<rev, alive, callerVars, connVars, decoder, flagVars,
                 nextReportTime, commitTime, exitWhy, rcvd, now, nmsgs, callHist,
                 counts>>

\* fetching returned an error: log.Fatalf ends the process; no deferred call
\* runs.
Fatalf ==
  /\ rev = Inline /\ alive /\ loopPc = "fatalf"
  /\ alive' = FALSE
  /\ UNCHANGED <<rev, callerVars, connVars, decoder, flagVars, loopVars, chanVars,
                 now, nmsgs, callHist, loopHist>>

\* Mutant of ChanClose: closing discards what the channel holds.
ChanCloseDiscard(ch) == [ch EXCEPT !.closed = TRUE, !.buf = <<>>]

\* close(ch): the channel is closed and keeps what it holds.
ChanClose(ch) == [ch EXCEPT !.closed = TRUE]

\* The deferred calls of the goroutine, last deferred first:
\* close(changes), close(p.stop), p.cleanup().
DeferCloseChanges ==
  /\ rev = Inline /\ alive /\ loopPc = "closeChanges"
  /\ changes' = ChanClose(changes)
  /\ loopPc' = "closeStop"
  /\ UNCHANGED <<rev, alive, callerVars, connVars, decoder, flagVars,
                 nextReportTime, commitTime, pending, exitWhy, sent, rcvd, now,
                 nmsgs, callHist, loopHist>>

DeferCloseStop ==
  /\ rev = Inline /\ alive /\ loopPc = "closeStop"
  /\ stop' = "closed"
  /\ loopPc' = "cleanup"
  /\ UNCHANGED <<rev, alive, callerVars, connVars, decoder, ackLsn, stopped,
                 nextReportTime, commitTime, pending, exitWhy, chanVars, now,
                 nmsgs, callHist, loopHist>>

DeferCleanup ==
  /\ rev = Inline /\ alive /\ loopPc = "cleanup"
  /\ LET after == cleanup(setupConn, replConn, connCloses)
     IN  /\ setupConn' = after.setupConn
         /\ replConn' = after.replConn
         /\ connCloses' = after.connCloses
  /\ loopPc' = "done"
  /\ UNCHANGED <<rev, alive, callerVars, decoder, flagVars, nextReportTime,
                 commitTime, pending, exitWhy, chanVars, now, nmsgs, callHist,
                 loopHist>>

\* ------------------------------------------------ fetch loop, postgres.go
\* BaseSource.capture is not among the sources.  Its loop is modelled after
\* the description of the fetch loop: it calls fetching once per iteration
\* unless a stop was requested, treats a receive timeout as a tick, forwards a
\* returned Change that has a Message, and on a stop or an error runs cleanup,
\* closes the channel and signals completion, without ending the process.
BaseTop ==
  /\ rev = Base /\ alive /\ loopPc = "top"
  /\ IF stopped = 1
       THEN exitWhy' = "stop" /\ loopPc' = "exit"
       ELSE loopPc' = "check" /\ UNCHANGED exitWhy
  /\ UNCHANGED <<rev, alive, callerVars, connVars, decoder, flagVars,
                 nextReportTime, commitTime, pending, chanVars, now, nmsgs,
                 callHist, loopHist>>

\* fetching of postgres.go, its first statement: if
\* time.Now().After(p.nextReportTime), send a standby status update with
\* committedLSN() and set p.nextReportTime; a failed send returns the error.
FetchCheckBase ==
  /\ rev = Base /\ alive /\ loopPc = "check"
  /\ IF now > nextReportTime
       THEN \E sok \in BOOLEAN :
              /\ iter' = [NoIter EXCEPT !.prev = iter.msg,
                                        !.prevNrt = iter.nrtBefore,
                                        !.status = IF sok THEN "sent" ELSE "failed",
                                        !.statusLsn = committedLSN]
              /\ counts' = [counts EXCEPT !.status = @ + 1]
              /\ IF ~sok
                   THEN /\ exitWhy' = "fatal"
                        /\ loopPc' = "exit"
                        /\ UNCHANGED nextReportTime
                   ELSE /\ nextReportTime' = now + ReportInterval
                        /\ loopPc' = "recv"
                        /\ UNCHANGED exitWhy
       ELSE /\ iter' = [NoIter EXCEPT !.prev = iter.msg, !.prevNrt = iter.nrtBefore]
            /\ loopPc' = "recv"
            /\ UNCHANGED <<counts, exitWhy, nextReportTime>>
  /\ UNCHANGED <<rev, alive, callerVars, connVars, decoder, flagVars, commitTime,
                 pending, chanVars, now, nmsgs, callHist>>

\* ReceiveMessage(ctx) returns an error and fetching returns it.  The
\* deadline of ctx is set by BaseSource.capture; it is taken to be the next
\* report time, and its expiry to start the next iteration.
RecvTimeoutBase ==
  /\ rev = Base /\ alive /\ loopPc = "recv"
  /\ now >= nextReportTime
  /\ iter' = [iter EXCEPT !.msg = "timeout"]
  /\ loopPc' = "top"
  /\ UNCHANGED <<rev, alive, callerVars, connVars, decoder, flagVars,
                 nextReportTime, commitTime, pending, exitWhy, chanVars, now,
                 nmsgs, callHist, counts>>

RecvErrorBase ==
  /\ rev = Base /\ alive /\ loopPc = "recv"
  /\ iter' = [iter EXCEPT !.msg = "error"]
  /\ exitWhy' = "fatal"
  /\ loopPc' = "exit"
  /\ UNCHANGED <<rev, alive, callerVars, connVars, decoder, flagVars,
                 nextReportTime, commitTime, pending, chanVars, now, nmsgs,
                 callHist, counts>>

\* ReceiveMessage delivers a message and the switch of fetching handles it;
\* fetching returns the Change (or none) and the error.
RecvMsgBase ==
  /\ rev = Base /\ alive /\ loopPc = "recv"
  /\ now < nextReportTime /\ nmsgs < MaxMsgs
  /\ \E msg \in Msgs, rok \in BOOLEAN :
       LET out == DispatchBase(msg, rok, nextReportTime, commitTime)
       IN  /\ nextReportTime' = out.nrt
           /\ commitTime' = out.commitTime
           /\ pending' = out.change
           /\ iter' = [iter EXCEPT !.msg = Label(msg), !.nrtBefore = nextReportTime,
                                   !.nrtAfter = out.nrt, !.events = out.events,
                                   !.ts = msg.m.ts]
           /\ counts' = Counted(counts, msg, out.events)
           /\ exitWhy' = (IF out.res = "fatal" THEN "fatal" ELSE exitWhy)
           /\ loopPc' = (CASE out.res = "fatal" -> "exit"
                           [] out.res = "forward" -> "send"
                           [] OTHER -> "top")
  /\ nmsgs' = nmsgs + 1
  /\ UNCHANGED <<rev, alive, callerVars, connVars, decoder, flagVars, chanVars,
                 now, callHist>>

\* The loop of BaseSource.capture forwards the Change fetching returned.
SendChangeBase ==
  /\ rev = Base /\ alive /\ loopPc = "send"
  /\ Len(changes.buf) < ChanCap
  /\ changes' = [changes EXCEPT !.buf = ChanSend(@, pending)]
  /\ sent' = Append(sent, pending)
  /\ iter' = [iter EXCEPT !.events = Append(@, "forward")]
  /\ pending' = NoChange
  /\ loopPc' = "top"
  /\ UNCHANGED <<rev, alive, callerVars, connVars, decoder, flagVars,
                 nextReportTime, commitTime, exitWhy, rcvd, now, nmsgs, callHist,
                 counts>>

\* The loop of BaseSource.capture ends: cleanup, then the channel is closed,
\* then completion is signalled.
ExitBase ==
  /\ rev = Base /\ alive /\ loopPc = "exit"
  /\ LET after == cleanupBase(setupConn, replConn, connCloses)
     IN  /\ setupConn' = after.setupConn
         /\ replConn' = after.replConn
         /\ connCloses' = after.connCloses
  /\ changes' = ChanClose(changes)
  /\ stop' = "closed"
  /\ loopPc' = "done"
  /\ UNCHANGED <<rev, alive, callerVars, decoder, ackLsn, stopped, nextReportTime,
                 commitTime, pending, exitWhy, sent, rcvd, now, nmsgs, callHist,
                 loopHist>>

\* ------------------------------------------------- Commit, Stop, consumer
\* Commit(cp): atomic.StoreUint64(&p.ackLsn, cp.LSN).  The caller passes the
\* checkpoint of a Change it has received, in any order.
Commit ==
  /\ alive /\ callerPc = "idle"
  /\ \E i \in DOMAIN rcvd : ackLsn' = rcvd[i].lsn
  /\ session' = [session EXCEPT !.hasCommit = TRUE, !.committed = ackLsn']
  /\ UNCHANGED <<rev, alive, callerVars, connVars, decoder, stopped, stop,
                 loopVars, chanVars, now, nmsgs, ncalls, lastCall, orphans,
                 loopHist>>

\* Mutant of StopCall: Stop waits on p.stop whether or not it is nil.
StopCallAlwaysWaits ==
  /\ alive /\ callerPc = "idle"
  /\ stopped' = 1
  /\ callerPc' = "StopWait"
  /\ stopInfo' = [stopInfo EXCEPT !.called = TRUE, !.waited = TRUE]
  /\ UNCHANGED <<rev, alive, connVars, decoder, ackLsn, stop, loopVars, chanVars,
                 now, nmsgs, callHist, loopHist>>

\* Stop: atomic.StoreInt64(&p.stopped, 1); if p.stop != nil, wait on it.
StopCall ==
  /\ alive /\ callerPc = "idle"
  /\ stopped' = 1
  /\ callerPc' = (IF stop # "nil" THEN "StopWait" ELSE "idle")
  /\ stopInfo' = [called |-> TRUE,
                  sentAt |-> IF stopped = 1 THEN stopInfo.sentAt ELSE Len(sent),
                  rcvdAt |-> IF stopped = 1 THEN stopInfo.rcvdAt ELSE Len(rcvd),
                  returned |-> IF stop # "nil" THEN stopInfo.returned ELSE TRUE,
                  waited |-> IF stop # "nil" THEN TRUE ELSE stopInfo.waited]
  /\ UNCHANGED <<rev, alive, connVars, decoder, ackLsn, stop, loopVars, chanVars,
                 now, nmsgs, callHist, loopHist>>

\* <-p.stop completes once p.stop is closed, and Stop returns.
StopReturn ==
  /\ alive /\ callerPc = "StopWait"
  /\ stop = "closed"
  /\ callerPc' = "idle"
  /\ stopInfo' = [stopInfo EXCEPT !.returned = TRUE]
  /\ UNCHANGED <<rev, alive, connVars, decoder, flagVars, loopVars, chanVars, now,
                 nmsgs, callHist, loopHist>>

\* The consumer takes the next Change from the channel Capture returned; a
\* closed channel still delivers what it holds.
Consume ==
  /\ alive /\ callerPc = "idle"
  /\ changes.made /\ changes.buf # <<>>
  /\ rcvd' = Append(rcvd, Head(changes.buf))
  /\ changes' = [changes EXCEPT !.buf = Tail(@)]
  /\ UNCHANGED <<rev, alive, callerVars, connVars, decoder, flagVars, loopVars,
                 sent, now, nmsgs, callHist, loopHist>>

\* ------------------------------------------------------------------ clock
\* The clock.  Only the fetch loop reads it, so it advances while a loop
\* runs, and it is observed every ReportInterval seconds.
Tick ==
  /\ alive /\ ~LoopIdle /\ now + ReportInterval <= MaxNow
  /\ now' = now + ReportInterval
  /\ UNCHANGED <<rev, alive, callerVars, connVars, decoder, flagVars, loopVars,
                 chanVars, nmsgs, callHist, loopHist>>

Next ==
  \/ Setup(MaxCalls) \/ Capture(MaxCalls) \/ CaptureBase(MaxCalls)
  \/ FetchStart \/ FetchCheck \/ RecvTimeout \/ RecvError \/ RecvMsg \/ SendChange
  \/ Fatalf \/ DeferCloseChanges \/ DeferCloseStop \/ DeferCleanup
  \/ BaseTop \/ FetchCheckBase \/ RecvTimeoutBase \/ RecvErrorBase \/ RecvMsgBase
  \/ SendChangeBase \/ ExitBase
  \/ Commit \/ StopCall \/ StopReturn \/ Consume
  \/ Tick

Spec == Init /\ [][Next]_vars

\* The same program against a server that streams nothing, with more calls of
\* Setup and Capture.
NextCalls ==
  \/ Setup(MaxRetryCalls) \/ Capture(MaxRetryCalls) \/ CaptureBase(MaxRetryCalls)
  \/ FetchStart \/ FetchCheck \/ RecvTimeout \/ RecvError
  \/ Fatalf \/ DeferCloseChanges \/ DeferCloseStop \/ DeferCleanup
  \/ BaseTop \/ FetchCheckBase \/ RecvTimeoutBase \/ RecvErrorBase \/ ExitBase
  \/ StopCall \/ StopReturn
  \/ Tick

SpecCalls == Init /\ [][NextCalls]_vars

\* The same, with a caller that may also call Capture while a loop runs.
NextReentry == NextCalls \/ CaptureRunning(MaxRetryCalls)

SpecReentry == Init /\ [][NextReentry]_vars

\* ================================================================ claims
Closed(id) == id = NoConn \/ connCloses[id] >= 1
NonDecreasing(q) == \A i, j \in DOMAIN q : i < j => q[i] <= q[j]
EndOffsets == [i \in DOMAIN sent |-> sent[i].rec.walStart + sent[i].rec.len]
EmittedLsns == [i \in DOMAIN sent |-> sent[i].lsn]

\* C1 (as claimed): once a Stop call that waited for a loop started by Capture
\* has returned, the goroutine has exited, the output channel is closed and
\* the control and the replication connection of the session are closed.
C1_StopReturnsAfterShutdown ==
  (stopInfo.returned /\ stopInfo.waited /\ session.started)
    => /\ loopPc = "done"
       /\ changes.closed
       /\ Closed(session.sc)
       /\ Closed(session.rc)

\* The loop has terminated: fetching returned and the goroutine can take no
\* further step.
LoopEnded == exitWhy # "none" /\ (loopPc = "done" \/ ~alive)

\* C2 (as claimed): whenever the fetch loop has terminated, by a stop or by a
\* fatal condition, the process is still running, both connections of the
\* session are closed, the output channel is closed and completion is
\* signalled.
C2_LoopExitCleansUp ==
  LoopEnded
    => /\ alive
       /\ Closed(session.sc)
       /\ Closed(session.rc)
       /\ changes.closed
       /\ stop = "closed"

\* The loop waits where no status-report check can follow unless the
\* consumer takes a Change: the send on a full channel.
LoopBlocked == loopPc = "send" /\ Len(changes.buf) >= ChanCap

\* C3 (as claimed): while a Stop call waits for the loop of a running process,
\* the loop is on its way to a status-report check (at most a receive deadline
\* away), so that the stop request is observed and Stop returns; it is never
\* blocked for good.
C3_StopIsObserved ==
  (alive /\ callerPc = "StopWait") => ~LoopBlocked

\* C4: after a Stop call that waited for the loop has returned, the channel
\* is closed and every Change placed on it before the stop was requested is
\* either already received or still in the channel, in the order sent.
C4_BufferedChangesSurviveStop ==
  (stopInfo.returned /\ stopInfo.waited)
    => /\ changes.closed
       /\ Len(rcvd \o changes.buf) >= stopInfo.sentAt
       /\ \A i \in 1..stopInfo.sentAt : (rcvd \o changes.buf)[i] = sent[i]

\* Witness of C4: a Change was in the channel when Stop was requested, and the
\* consumer received it after Stop returned.
C4_Witness ==
  /\ stopInfo.returned /\ stopInfo.waited
  /\ stopInfo.sentAt > stopInfo.rcvdAt
  /\ Len(rcvd) >= stopInfo.sentAt

\* C5: the start position passed to StartReplication is the server's current
\* WAL position when the checkpoint's LSN is 0, and the checkpoint's LSN
\* otherwise; a successful Capture stores it in ackLsn.
C5_StartPosition ==
  session.asked
    => /\ (session.cp = 0 => session.start = session.xlogpos)
       /\ (session.cp # 0 => session.start = session.cp)

\* Witness of C5: replication was started from the server's position.
C5_Witness ==
  session.started /\ session.cp = 0 /\ session.start = session.xlogpos

C7_KeepaliveReply ==
  /\ iter.prev = "KeepaliveReply" => iter.status # "none"
  /\ iter.msg = "KeepaliveReply" => iter.nrtAfter = 0
  /\ iter.msg = "Keepalive" => iter.nrtAfter = iter.nrtBefore

\* Witness of C7: a status update was sent right after a keepalive with
\* ReplyRequested, before the report time then pending.
C7_Witness ==
  /\ iter.prev = "KeepaliveReply" /\ iter.status = "sent"
  /\ now < iter.prevNrt

\* C8: for a Change classified DDL and not ignorable, RefreshType is called
\* exactly once, after the decoding and before the Change is forwarded; if it
\* fails the Change is not forwarded and the loop terminates.  No other
\* message triggers a refresh, so refreshes and DDL changes stay equal in
\* number at every later decoding.
C8_RefreshBeforeForward ==
  /\ counts.refresh = counts.ddl
  /\ iter.msg = "DDL"
       => \/ /\ iter.events = <<"decode", "refresh">>
             /\ loopPc = "send" /\ pending.msg.ddl
          \/ iter.events = <<"decode", "refresh", "forward">>
          \/ /\ iter.events = <<"decode", "refresh_failed">>
             /\ exitWhy = "fatal" /\ pending = NoChange
             /\ loopPc \in {"fatalf", "exit", "done"}
  /\ iter.msg \notin {"DDL", "none", "timeout", "error"}
       => \A i \in DOMAIN iter.events :
            iter.events[i] \notin {"refresh", "refresh_failed"}

\* Witness of C8: a DDL change was decoded, the schema refreshed and the
\* Change forwarded.
C8_Witness ==
  iter.msg = "DDL" /\ iter.events = <<"decode", "refresh", "forward">>

\* C9 (as claimed): when a step of Setup or Capture fails, the call returns an
\* error and no connection is open when it returns.
C9_FailureReturnsErrAndCloses ==
  lastCall.failed # "none" => lastCall.ret = "err" /\ lastCall.open = {}

\* C10 (as claimed): no connection is closed twice, and once the cleanup of
\* the loop has run (and no call was made since) every connection opened was
\* closed exactly once.
C10_ClosedExactlyOnce ==
  /\ \A id \in DOMAIN connCloses : connCloses[id] <= 1
  /\ (loopPc = "done" /\ lastCall.op = "Capture" /\ lastCall.ret = "nil")
       => \A id \in DOMAIN connCloses : connCloses[id] = 1

\* The goroutines of Capture that are running their fetch loop.
ActiveLoops ==
  orphans + (IF alive /\ loopPc \in {"start", "check", "recv", "send", "top"}
               THEN 1 ELSE 0)

\* C11 (as claimed): at most one fetch loop is active, whatever Capture and
\* Stop calls are made.
C11_AtMostOneLoop == ActiveLoops <= 1

\* The instant 946684800 seconds plus ts microseconds after the Unix epoch.
Y2KPlus(ts) ==
  LET micro == WordAdd(Word(946, 684800, 0), ts)
  IN  [set |-> TRUE, neg |-> FALSE, sec |-> <<micro[1], micro[2]>>,
       nsec |-> micro[3] * 1000]

\* C12 (as claimed): the commit time PGTime2Time makes of the timestamp ts of
\* a Begin is the instant 946684800 seconds plus ts microseconds after the
\* Unix epoch; ts = 0 gives 2000-01-01T00:00:00Z (Unix second 946684800) and
\* ts = 1000000 gives one second later.
C12_PGTime2TimeExact ==
  /\ PGTime2Time(Word(0, 0, 0)).sec = <<946, 684800>>
  /\ PGTime2Time(Word(0, 1, 0)).sec = <<946, 684801>>
  /\ (rev = Inline /\ iter.msg = "Begin") => commitTime = Y2KPlus(iter.ts)

\* What C13 says of an ignorable change: nothing but the decoding was done for
\* it (no refresh, no forward), the loop went on to its next iteration, and
\* no emitted Change is ignorable.
IgnoredIsDropped ==
  /\ iter.msg = "Ignored"
       => /\ iter.events = <<"decode">>
          /\ pending = NoChange
          /\ exitWhy # "fatal"
          /\ loopPc \in {"check", "top", "exit", "done"}
  /\ \A i \in DOMAIN sent : ~sent[i].msg.ignore
  /\ counts.refresh <= counts.kept

\* C13 (as claimed): an ignorable change is dropped, and, no send being in
\* progress, the emitted Changes are as many as the decoded messages that are
\* neither nil nor ignorable.
C13_EmittedEqualsKept ==
  /\ IgnoredIsDropped
  /\ loopPc # "send" => Len(sent) = counts.kept

\* C13 (amended): an ignorable change is dropped, and the emitted Changes are
\* as many as the decoded messages that are neither nil nor ignorable, less
\* the Change whose send is in progress and the DDL change whose schema
\* refresh failed.
C13_EmittedEqualsKeptAndRefreshed ==
  /\ IgnoredIsDropped
  /\ Len(sent) = counts.kept - counts.refreshFailed
                   - (IF loopPc = "send" THEN 1 ELSE 0)

\* Witness of C13: an ignorable change was decoded after a Change had been
\* emitted, and the loop went on.
C13_Witness ==
  /\ iter.msg = "Ignored" /\ counts.ignored = 1
  /\ Len(sent) = 1 /\ loopPc \in {"check", "top"}

\* C14: in the loop of part_000 a message is received only before the next
\* report time; a receive that ends by the deadline leaves the loop running
\* and takes it back to the status-report check, and the check made after it
\* with the clock past the report time sends a status update; a receive that
\* fails otherwise makes fetching return the error, and nothing is received
\* after it.
C14_ReceiveDeadline ==
  /\ [](rev = Inline /\ iter.msg = "error"
          => exitWhy = "fatal" /\ loopPc = "fatalf")
  /\ [][rev = Inline =>
          /\ nmsgs' # nmsgs => now < nextReportTime
          /\ (iter'.msg = "timeout" /\ iter.msg # "timeout")
               => loopPc' = "check" /\ exitWhy' = "none" /\ alive'
          /\ (loopPc = "check" /\ iter.msg = "timeout" /\ now > nextReportTime
                 /\ loopPc' # "check")
               => iter'.status # "none" /\ iter'.statusLsn = ackLsn
          /\ (iter.msg = "error" /\ alive) => nmsgs' = nmsgs /\ sent' = sent
       ]_vars

\* Witness of C14: with no message received, a status update was sent at the
\* check that followed the expiry of a receive deadline.
C14_Witness ==
  /\ rev = Inline /\ nmsgs = 0
  /\ iter.prev = "timeout" /\ iter.status = "sent" /\ loopPc = "recv"

\* C15 (as claimed): a received message that is neither a keepalive nor WAL
\* data (one that is not CopyData, or CopyData of another kind) makes
\* fetching return an error: the loop has terminated, and nothing was decoded
\* or forwarded for it.
C15_UnexpectedIsFatal ==
  iter.msg \in {"Other", "CopyOther"}
    => /\ exitWhy = "fatal"
       /\ loopPc \in {"fatalf", "exit", "done"}
       /\ iter.events = <<>> /\ pending = NoChange

\* C16: a standby status update carries the value of ackLsn at the moment it
\* is sent; during a session ackLsn is the start position Capture stored if
\* Commit was not called since, and the LSN of the latest Commit otherwise; a
\* step that receives a message or forwards a Change leaves ackLsn alone.
C16_StatusCarriesAckLsn ==
  /\ [](session.started
          => ackLsn = (IF session.hasCommit THEN session.committed
                                            ELSE session.start))
  /\ [][/\ counts'.status = counts.status + 1 => iter'.statusLsn = ackLsn
        /\ (nmsgs' # nmsgs \/ sent' # sent \/ loopPc' # loopPc)
             => (ackLsn' = ackLsn \/ ncalls' # ncalls)
       ]_vars

\* Witness of C16: a status update carried the LSN of a Commit, which differs
\* from the start position.
C16_Witness ==
  /\ iter.status = "sent" /\ session.hasCommit
  /\ iter.statusLsn = session.committed
  /\ iter.statusLsn # session.start

\* C17: in part_000, once a Begin was decoded in the session the recorded
\* commit time is the conversion of the CommitTime of the latest Begin; a
\* Change is emitted with the commit time recorded at that moment (for a Begin,
\* its own); and the recorded commit time changes only in a step that decodes
\* a Begin.
C17_TimeOfLatestBegin ==
  /\ []((rev = Inline /\ counts.begun)
          => commitTime = PGTime2Time(counts.beginTs))
  /\ [][rev = Inline =>
          /\ Len(sent') > Len(sent) => sent'[Len(sent')].time = commitTime
          /\ commitTime' # commitTime => (iter'.msg = "Begin" /\ nmsgs' # nmsgs)
       ]_vars

\* Witness of C17: a Change that is not a Begin was emitted with the commit
\* time of the Begin emitted before it.
C17_Witness ==
  /\ rev = Inline /\ Len(sent) = 2
  /\ sent[1].msg.type = "Begin" /\ sent[2].msg.type = "Change"
  /\ sent[2].time = PGTime2Time(sent[1].msg.ts)
  /\ sent[2].time.set

C19_StopAfterStatusUpdate ==
  /\ []((rev = Inline /\ exitWhy = "stop")
          => /\ iter.status = "sent" /\ iter.msg = "none" /\ iter.events = <<>>
             /\ loopPc \in {"closeChanges", "closeStop", "cleanup", "done"})
  /\ [][rev = Inline =>
          /\ (exitWhy' = "stop" /\ exitWhy # "stop")
               => /\ stopped = 1 /\ now > nextReportTime
                  /\ counts'.status = counts.status + 1
                  /\ iter'.statusLsn = ackLsn
                  /\ nmsgs' = nmsgs /\ sent' = sent
          /\ (exitWhy = "stop" /\ ncalls' = ncalls)
               => nmsgs' = nmsgs /\ sent' = sent /\ counts' = counts
          /\ (loopPc = "check" /\ loopPc' # "check" /\ now <= nextReportTime)
               => loopPc' = "recv" /\ exitWhy' = exitWhy /\ counts' = counts
       ]_vars

\* Witness of C19: the loop of part_000, having received a message, has
\* returned for a stop request made while it ran, after a status update.
C19_Witness ==
  /\ rev = Inline /\ exitWhy = "stop" /\ nmsgs >= 1
  /\ stopInfo.waited /\ iter.status = "sent"

\* C20: the stop flag, once set, stays set, and it is set whenever Stop was
\* called; a Stop call made while p.stop is nil (no Capture has started a
\* loop) does not wait; a Stop call made after the loop has exited finds
\* p.stop closed, so its wait ends at once; and in part_000 a loop started by
\* a Capture call made after a Stop call sends at most one status update and
\* has returned once it has sent it.
C20_StopFlagIsOneShot ==
  /\ [](/\ stopInfo.called => stopped = 1
        /\ callerPc = "StopWait" => stop # "nil"
        /\ (callerPc = "StopWait" /\ loopPc = "done") => stop = "closed"
        /\ (rev = Inline /\ session.started /\ session.stopFirst)
             => /\ counts.status <= 1
                /\ counts.status = 1 => exitWhy # "none"
                /\ exitWhy = "stop" => counts.status = 1)
  /\ [][/\ stopped = 1 => stopped' = 1
        /\ (stopInfo' # stopInfo /\ ncalls' = ncalls /\ stop = "nil")
             => (callerPc' = "idle" /\ stopInfo'.returned)
       ]_vars

\* Witness of C20: a loop started after a Stop call that did not wait has
\* returned at its first status update and finished its deferred calls, and
\* a second Stop call has waited for it and returned.
C20_Witness ==
  /\ rev = Inline /\ session.started /\ session.stopFirst
  /\ exitWhy = "stop" /\ counts.status = 1 /\ loopPc = "done"
  /\ stopInfo.waited /\ stopInfo.returned /\ callerPc = "idle"
====
